---- MODULE Spec2Model ----
(***************************************************************************)
(* cert-to-cv: the browser components FileUpload, DocumentList,            *)
(* ResumePreview, VersionHistory and AuthForm, each running in one or more *)
(* sessions (browser tabs), against the shared backend described by the    *)
(* migration: the tables resumes, documents and resume_versions with their *)
(* row-level-security policies, and the storage bucket "documents".        *)
(*                                                                         *)
(* A handler that awaits the backend is split at its awaits: the step that *)
(* sends the first request, and one step per response (the backend's       *)
(* effect together with the handler's code up to the next await).          *)
(***************************************************************************)
EXTENDS Integers, Sequences, FiniteSets, TLC

\* ------------------------------------------------------------ bounds
MaxDocs == 2        \* document rows inserted in a run
MaxClock == 2       \* distinct Date.now() tokens handed out in a run
MaxInFlight == 2    \* deleteDocument, or one tab's createResume, calls in flight
MaxResumes == 2     \* resume rows inserted in a run
MaxVersions == 1    \* resume_versions rows inserted in a run
MaxLedger == 2      \* resume_versions rows inserted in a run of the ledger

\* ------------------------------------------------------------ values
Sessions == {"s1", "s2"}
Users == {"u1", "u2"}
NoUser == "none"

\* user.email of the identity; u2 is an identity without an email
NoEmail == "undefined"
UserEmail(u) == IF u = "u1" THEN "u1@mail" ELSE NoEmail

Titles == {"AWS Cert"}
DocumentTypes == {"certificate"}                 \* one of FileUpload.tsx:13-19
Exts == {"pdf"}                                  \* file.name.split('.').pop()
NoFile == "nofile"                               \* acceptedFiles[0] undefined

\* results of one backend call as the handler sees them
Pending == "pending"      \* sent, not answered
NotSent == "notsent"      \* the handler never reached the call
NoError == "ok"
Error == "error"

NoPath == <<>>
NoToast == [session |-> "none", title |-> "", description |-> ""]
\* toast({ title, description }) in session s
Toast(s, ttl, description) == [session |-> s, title |-> ttl, description |-> description]

Max(a, b) == IF a >= b THEN a ELSE b

\* a handler whose finally block is skipped
NoFinally(busy, s) == busy

\* finally { setUploading(false) }, and the same for the loading flags: the
\* busy flag of session s is cleared however the handler ended
Finally(busy, s) == [busy EXCEPT ![s] = FALSE]

\* ------------------------------------------------------------ state
VARIABLES
  \* backend
  db_documents,        \* public.documents
  bucket_documents,    \* storage.objects of bucket 'documents' (object names)
  db_resumes,          \* public.resumes
  db_resume_versions,  \* public.resume_versions
  seq,                 \* next document id / created_at of the store
  rseq,                \* next resume id
  vseq,                \* next version id
  clock,               \* Date.now() of the browsers
  \* session
  user,                \* useAuth().user
  authLoading,         \* AuthForm: loading
  authReq,             \* AuthForm: the handleSubmit in flight
  activeTab,           \* Dashboard: activeTab
  title, documentType, uploading, progress,    \* FileUpload state
  up,                  \* FileUpload: the onDrop call in flight
  documents,           \* DocumentList: documents
  docsLoading,         \* DocumentList: loading
  dels,                \* DocumentList: deleteDocument calls in flight, counted
  resume,              \* ResumePreview: resume
  resumeLoading,       \* ResumePreview: loading
  generating,          \* ResumePreview: generating
  creating,            \* ResumePreview: createResume calls in flight
  versions,            \* VersionHistory: versions
  versionsLoading,     \* VersionHistory: loading
  fv,                  \* VersionHistory: the fetchVersions call, in flight or finished
  bucket_generated,    \* storage.objects of bucket 'generated-resumes' (object names)
  dl,                  \* VersionHistory: downloadVersion calls in flight, counted
  anchor,              \* the file the browser was last handed: a.href, a.download
  toast,               \* the notification raised last, and the session it is shown in
  last                 \* the handler call that finished last, and how

backend == <<db_documents, bucket_documents, db_resumes, db_resume_versions,
             seq, rseq, vseq, clock>>
authVars == <<user, authLoading, authReq, activeTab>>
uploadVars == <<title, documentType, uploading, progress, up>>
listVars == <<documents, docsLoading, dels>>
resumeVars == <<resume, resumeLoading, generating, creating>>
versionVars == <<versions, versionsLoading, fv>>
downloadVars == <<bucket_generated, dl, anchor>>
notes == <<toast, last>>
vars == <<backend, authVars, uploadVars, listVars, resumeVars, versionVars,
          downloadVars, notes>>

\* ------------------------------------------------------------ rows
NoResume == [id |-> 0]
IdleUp == [pc |-> "idle", fileName |-> NoPath, user_id |-> NoUser, title |-> "",
           type |-> "", uploadError |-> NotSent, dbError |-> NotSent]
NoLast == [session |-> "none", op |-> "none", documentId |-> 0, filePath |-> NoPath,
           storageError |-> NotSent, dbError |-> NotSent]
NoAuthReq == [type |-> "none", email |-> NoUser]
IdleFv == [pc |-> "idle", resume_id |-> 0]
NoAnchor == [href |-> NoPath, download |-> <<>>]

\* `${user.id}/${Date.now()}.${fileExt}`: the object name, kept as its three parts
FileName(uid, now, ext) == <<uid, now, ext>>
\* (storage.foldername(name))[1]: the first folder of an object name
FolderName1(name) == IF name = NoPath THEN NoUser ELSE name[1]

\* ------------------------------------------------------------ backend
\* a delete policy that lets every signed-in caller through
AnyoneDeletes(uid, d) == uid # NoUser

\* Row-level security: auth.uid() of a request without a session is NoUser,
\* which equals no row's user_id.
ResumesSelectPolicy(uid, r) == uid = r.user_id
ResumesInsertPolicy(uid, r) == uid = r.user_id
ResumesDeletePolicy(uid, r) == uid = r.user_id
DocumentsSelectPolicy(uid, d) == uid = d.user_id
DocumentsInsertPolicy(uid, d) == uid = d.user_id
DocumentsDeletePolicy(uid, d) == uid = d.user_id
VersionsSelectPolicy(uid, v) ==
  \E r \in db_resumes : r.id = v.resume_id /\ r.user_id = uid
VersionsInsertPolicy(uid, v) ==
  \E r \in db_resumes : r.id = v.resume_id /\ r.user_id = uid
StorageInsertPolicy(uid, name) == uid = FolderName1(name)
StorageDeletePolicy(uid, name) == uid = FolderName1(name)

\* CHECK (type IN (...)) and CHECK (status IN (...)) of public.documents
DocumentsCheck(d) ==
  /\ d.type \in {"certificate", "project", "education", "experience", "skill"}
  /\ d.status \in {"pending", "processing", "completed", "error"}

\* .order('created_at', { ascending: false })
RECURSIVE OrderByCreatedAtDesc(_)
OrderByCreatedAtDesc(S) ==
  IF S = {} THEN <<>>
  ELSE LET d == CHOOSE x \in S : \A y \in S : y.created_at <= x.created_at
       IN <<d>> \o OrderByCreatedAtDesc(S \ {d})

\* .order('version_number', { ascending: false })
RECURSIVE OrderByVersionDesc(_)
OrderByVersionDesc(S) ==
  IF S = {} THEN <<>>
  ELSE LET v == CHOOSE x \in S : \A y \in S : y.version_number <= x.version_number
       IN <<v>> \o OrderByVersionDesc(S \ {v})

\* a listing that neither filters by user nor is filtered by the policy
FetchDocumentsOfAll(auth, uid) == OrderByCreatedAtDesc(db_documents)

\* from('documents').select('*').eq('user_id', uid).order(...), sent as auth
FetchDocumentsQuery(auth, uid) ==
  OrderByCreatedAtDesc({d \in db_documents :
                          DocumentsSelectPolicy(auth, d) /\ d.user_id = uid})

\* from('resumes').select(..).eq('user_id', uid).eq('is_active', true), sent as auth
ActiveResumesQuery(auth, uid) ==
  {r \in db_resumes : ResumesSelectPolicy(auth, r) /\ r.user_id = uid /\ r.is_active}

\* .single(): the row when exactly one row matches; otherwise no data and the
\* error PGRST116, for no row and for several rows alike. A call the store does
\* not answer (netOk false) ends with another error.
Single(rows, netOk) ==
  IF ~netOk THEN [data |-> NoResume, error |-> Error, code |-> "FETCH"]
  ELSE IF Cardinality(rows) = 1
       THEN [data |-> CHOOSE r \in rows : TRUE, error |-> NoError, code |-> ""]
       ELSE [data |-> NoResume, error |-> Error, code |-> "PGRST116"]

\* from('resume_versions').select('*').eq('resume_id', rid).order(...)
FetchVersionsQuery(auth, rid) ==
  OrderByVersionDesc({v \in db_resume_versions :
                        VersionsSelectPolicy(auth, v) /\ v.resume_id = rid})

\* storage.from('documents').upload(name, file): upsert is off, so an object
\* of that name already stored is an error
StorageUploadError(auth, name, netOk) ==
  IF netOk /\ StorageInsertPolicy(auth, name) /\ name \notin bucket_documents
  THEN NoError ELSE Error

\* storage.from('documents').remove([name]): objects the policy hides are
\* skipped without an error
StorageRemoved(auth, name) ==
  {n \in bucket_documents : n = name /\ StorageDeletePolicy(auth, n)}

\* from('documents').delete().eq('id', id): rows the policy hides are skipped
\* without an error
DocumentsDeleted(auth, id) ==
  {d \in db_documents : d.id = id /\ DocumentsDeletePolicy(auth, d)}

\* a row inserted as already processed
DocumentRowCompleted(uid, t, y, name) ==
  [id |-> seq, user_id |-> uid, title |-> t, type |-> y, file_path |-> name,
   status |-> "completed", created_at |-> seq]

\* the row of from('documents').insert({...}) with the table's defaults
DocumentRow(uid, t, y, name) ==
  [id |-> seq, user_id |-> uid, title |-> t, type |-> y, file_path |-> name,
   status |-> "pending", created_at |-> seq]

DocumentsInsertError(auth, d, netOk) ==
  IF netOk /\ DocumentsInsertPolicy(auth, d) /\ DocumentsCheck(d)
  THEN NoError ELSE Error

\* a skeleton that drops the pre-filled email
BlankContent(email) ==
  [personal |-> [name |-> "", email |-> "", phone |-> "", location |-> ""],
   sections |-> [experience |-> <<>>, education |-> <<>>, skills |-> <<>>,
                 projects |-> <<>>, certificates |-> <<>>]]

\* the content createResume inserts
EmptyContent(email) ==
  [personal |-> [name |-> "", email |-> email, phone |-> "", location |-> ""],
   sections |-> [experience |-> <<>>, education |-> <<>>, skills |-> <<>>,
                 projects |-> <<>>, certificates |-> <<>>]]

\* the row of from('resumes').insert({...}); is_active takes its DEFAULT true
ResumeRow(uid, email) ==
  [id |-> rseq, user_id |-> uid, title |-> "My Resume",
   content |-> EmptyContent(email), is_active |-> TRUE]

ResumesInsertError(auth, r, netOk) ==
  IF netOk /\ ResumesInsertPolicy(auth, r) THEN NoError ELSE Error

\* ------------------------------------------------------------ initial state
\* A tab opens with the session the identity provider restored, or with none.
\* The first tab is u1's; the other is u1's too, another user's, or signed out.
Init ==
  /\ db_documents = {}
  /\ bucket_documents = {}
  /\ db_resumes = {}
  /\ db_resume_versions = {}
  /\ seq = 1
  /\ rseq = 1
  /\ vseq = 1
  /\ clock = 1
  /\ user \in [Sessions -> Users \cup {NoUser}]
  /\ user["s1"] = "u1"
  /\ authLoading = [s \in Sessions |-> FALSE]
  /\ authReq = [s \in Sessions |-> NoAuthReq]
  /\ activeTab = [s \in Sessions |-> "upload"]
  /\ title = [s \in Sessions |-> ""]
  /\ documentType = [s \in Sessions |-> ""]
  /\ uploading = [s \in Sessions |-> FALSE]
  /\ progress = [s \in Sessions |-> 0]
  /\ up = [s \in Sessions |-> IdleUp]
  /\ documents = [s \in Sessions |-> <<>>]
  /\ docsLoading = [s \in Sessions |-> TRUE]
  /\ dels = [s \in Sessions |-> {}]
  /\ resume = [s \in Sessions |-> NoResume]
  /\ resumeLoading = [s \in Sessions |-> TRUE]
  /\ generating = [s \in Sessions |-> FALSE]
  /\ creating = [s \in Sessions |-> 0]
  /\ versions = [s \in Sessions |-> <<>>]
  /\ versionsLoading = [s \in Sessions |-> TRUE]
  /\ fv = [s \in Sessions |-> IdleFv]
  /\ bucket_generated = {}
  /\ dl = [s \in Sessions |-> {}]
  /\ anchor = [s \in Sessions |-> NoAnchor]
  /\ toast = NoToast
  /\ last = NoLast

\* the initial states in which only the first tab is signed in
InitOneTab == Init /\ user["s2"] = NoUser

\* what one session holds in flight
UploadInFlight(s) == IF up[s].pc \in {"storing", "inserting"} THEN 1 ELSE 0
AuthInFlight(s) == IF authReq[s] # NoAuthReq THEN 1 ELSE 0
FetchVersionsInFlight(s) == IF fv[s].pc = "querying" THEN 1 ELSE 0
Quiescent(s) ==
  /\ UploadInFlight(s) = 0
  /\ dels[s] = {}
  /\ creating[s] = 0
  /\ FetchVersionsInFlight(s) = 0
  /\ dl[s] = {}

\* ------------------------------------------------------------ AuthForm
\* handleSubmit(type) up to its await: the form is shown to a visitor without
\* a session, and its buttons are disabled while loading
handleSubmit(s, type, email) ==
  /\ user[s] = NoUser
  /\ ~authLoading[s]
  /\ authLoading' = [authLoading EXCEPT ![s] = TRUE]
  /\ authReq' = [authReq EXCEPT ![s] = [type |-> type, email |-> email]]
  /\ UNCHANGED <<downloadVars, backend, user, activeTab, uploadVars, listVars, resumeVars,
                 versionVars, notes>>

\* the identity provider's answer and the rest of handleSubmit
handleSubmitResolve(s, ok) ==
  /\ authReq[s] # NoAuthReq
  /\ IF ~ok
     THEN /\ toast' = Toast(s, "Error", "error.message")
          /\ last' = [NoLast EXCEPT !.session = s, !.op = "handleSubmit",
                                    !.dbError = Error]
          /\ UNCHANGED user
     ELSE IF authReq[s].type = "signup"
     THEN /\ toast' = Toast(s, "Success", "Check your email for confirmation link")
          /\ last' = [NoLast EXCEPT !.session = s, !.op = "handleSubmit",
                                    !.dbError = NoError]
          /\ UNCHANGED user
     ELSE /\ user' = [user EXCEPT ![s] = authReq[s].email]
          /\ UNCHANGED notes
  /\ authLoading' = Finally(authLoading, s)
  /\ authReq' = [authReq EXCEPT ![s] = NoAuthReq]
  /\ UNCHANGED <<downloadVars, backend, activeTab, uploadVars, listVars, resumeVars, versionVars>>

\* the state every component of the dashboard is mounted with
Unmounted(s) ==
  /\ title' = [title EXCEPT ![s] = ""]
  /\ documentType' = [documentType EXCEPT ![s] = ""]
  /\ uploading' = [uploading EXCEPT ![s] = FALSE]
  /\ progress' = [progress EXCEPT ![s] = 0]
  /\ documents' = [documents EXCEPT ![s] = <<>>]
  /\ docsLoading' = [docsLoading EXCEPT ![s] = TRUE]
  /\ resume' = [resume EXCEPT ![s] = NoResume]
  /\ resumeLoading' = [resumeLoading EXCEPT ![s] = TRUE]
  /\ generating' = [generating EXCEPT ![s] = FALSE]
  /\ versions' = [versions EXCEPT ![s] = <<>>]
  /\ versionsLoading' = [versionsLoading EXCEPT ![s] = TRUE]
  /\ fv' = [fv EXCEPT ![s] = IdleFv]

\* Dashboard's Sign Out button: the session is cleared and the dashboard's
\* components, with their state, are gone
signOut(s) ==
  /\ user[s] # NoUser
  /\ Quiescent(s)
  /\ user' = [user EXCEPT ![s] = NoUser]
  /\ activeTab' = [activeTab EXCEPT ![s] = "upload"]
  /\ Unmounted(s)
  /\ UNCHANGED <<downloadVars, backend, authLoading, authReq, up, dels, creating, notes>>

\* Dashboard's tabs (onValueChange = setActiveTab): the content of the tab left
\* is unmounted and the content of the tab entered is mounted, both with the
\* state their useState calls give. A tab is left once its handlers returned.
setActiveTab(s, tab) ==
  /\ user[s] # NoUser
  /\ activeTab[s] # tab
  /\ Quiescent(s)
  /\ activeTab' = [activeTab EXCEPT ![s] = tab]
  /\ Unmounted(s)
  /\ UNCHANGED <<downloadVars, backend, user, authLoading, authReq, up, dels, creating, notes>>

\* ------------------------------------------------------------ FileUpload
\* title and type inputs (onChange, onValueChange), edited while no upload
\* is in flight
setTitle(s, t) ==
  /\ user[s] # NoUser
  /\ activeTab[s] = "upload"
  /\ ~uploading[s]
  /\ title[s] # t
  /\ title' = [title EXCEPT ![s] = t]
  /\ UNCHANGED <<downloadVars, backend, authVars, documentType, uploading, progress, up,
                 listVars, resumeVars, versionVars, notes>>

setDocumentType(s, y) ==
  /\ user[s] # NoUser
  /\ activeTab[s] = "upload"
  /\ ~uploading[s]
  /\ documentType[s] # y
  /\ documentType' = [documentType EXCEPT ![s] = y]
  /\ UNCHANGED <<downloadVars, backend, authVars, title, uploading, progress, up,
                 listVars, resumeVars, versionVars, notes>>

\* a validation that forgets the title
MissingUserOrType(u, y, t) == u = NoUser \/ y = ""

\* if (!user || !documentType || !title)
MissingInformation(u, y, t) == u = NoUser \/ y = "" \/ t = ""

\* an onDrop that goes on to the insert whatever the upload answered
UploadNeverThrows(uploadError) == FALSE

\* if (uploadError) throw uploadError
UploadThrows(uploadError) == uploadError = Error

\* if (dbError) throw dbError, in onDrop
InsertThrows(dbError) == dbError = Error

\* the sessions with an upload in flight: each may still insert a row
UploadsInFlight == {s \in Sessions : up[s].pc # "idle"}

LastUpload(s, name, uploadError, dbError) ==
  [session |-> s, op |-> "onDrop", documentId |-> 0, filePath |-> name,
   storageError |-> uploadError, dbError |-> dbError]

\* onDrop(acceptedFiles) up to its first await. The dropzone is disabled while
\* uploading. file is the extension of acceptedFiles[0], or NoFile.
onDrop(s, file) ==
  /\ activeTab[s] = "upload"
  /\ ~uploading[s]
  /\ IF MissingInformation(user[s], documentType[s], title[s])
     THEN /\ toast' = Toast(s, "Missing Information", "Please fill in the document title and type")
          /\ last' = LastUpload(s, NoPath, NotSent, NotSent)
          /\ UNCHANGED <<uploading, progress, up>>
     ELSE IF file = NoFile
     THEN UNCHANGED <<uploading, progress, up, notes>>
     ELSE /\ clock <= MaxClock
          /\ seq + Cardinality(UploadsInFlight) <= MaxDocs
          /\ uploading' = [uploading EXCEPT ![s] = TRUE]
          /\ progress' = [progress EXCEPT ![s] = 0]
          /\ up' = [up EXCEPT ![s] =
                      [pc |-> "storing", fileName |-> FileName(user[s], clock, file),
                       user_id |-> user[s], title |-> title[s],
                       type |-> documentType[s],
                       uploadError |-> Pending, dbError |-> NotSent]]
          /\ UNCHANGED notes
  /\ UNCHANGED <<downloadVars, backend, authVars, title, documentType, listVars, resumeVars,
                 versionVars>>

\* the storage upload is answered; onDrop runs on to the insert or to its
\* catch. The answer comes later than the millisecond the name was made in.
onDropStored(s, netOk) ==
  /\ up[s].pc = "storing"
  /\ LET name == up[s].fileName
         uploadError == StorageUploadError(user[s], name, netOk)
     IN /\ clock' = Max(clock, name[2] + 1)
        /\ bucket_documents' =
             IF uploadError = NoError THEN bucket_documents \cup {name}
             ELSE bucket_documents
        /\ IF UploadThrows(uploadError)
           THEN /\ toast' = Toast(s, "Upload Failed", "Failed to upload document. Please try again.")
                /\ last' = LastUpload(s, name, uploadError, NotSent)
                /\ uploading' = Finally(uploading, s)
                /\ up' = [up EXCEPT ![s] = IdleUp]
                /\ UNCHANGED progress
           ELSE /\ progress' = [progress EXCEPT ![s] = 50]
                /\ up' = [up EXCEPT ![s].pc = "inserting",
                                    ![s].uploadError = uploadError,
                                    ![s].dbError = Pending]
                /\ UNCHANGED <<notes, uploading>>
  /\ UNCHANGED <<downloadVars, db_documents, db_resumes, db_resume_versions, seq, rseq, vseq,
                 authVars, title, documentType, listVars, resumeVars, versionVars>>

\* the insert is answered; onDrop runs to its end
onDropInserted(s, netOk) ==
  /\ up[s].pc = "inserting"
  /\ LET row == DocumentRow(up[s].user_id, up[s].title, up[s].type, up[s].fileName)
         dbError == DocumentsInsertError(user[s], row, netOk)
     IN /\ IF dbError = NoError
           THEN /\ db_documents' = db_documents \cup {row}
                /\ seq' = seq + 1
           ELSE UNCHANGED <<db_documents, seq>>
        /\ IF InsertThrows(dbError)
           THEN /\ toast' = Toast(s, "Upload Failed", "Failed to upload document. Please try again.")
                /\ UNCHANGED <<title, documentType, progress>>
           ELSE /\ toast' = Toast(s, "Success", "Document uploaded successfully! Processing will begin shortly.")
                /\ title' = [title EXCEPT ![s] = ""]
                /\ documentType' = [documentType EXCEPT ![s] = ""]
                /\ progress' = [progress EXCEPT ![s] = 0]
        /\ last' = LastUpload(s, up[s].fileName, up[s].uploadError, dbError)
  /\ up' = [up EXCEPT ![s] = IdleUp]
  /\ uploading' = Finally(uploading, s)
  /\ UNCHANGED <<downloadVars, bucket_documents, db_resumes, db_resume_versions, rseq, vseq, clock,
                 authVars, listVars, resumeVars, versionVars>>

\* ------------------------------------------------------------ DocumentList
\* fetchDocuments, run once by the effect of the mounted list of a signed-in user
fetchDocuments(s, netOk) ==
  /\ user[s] # NoUser
  /\ activeTab[s] = "documents"
  /\ docsLoading[s]
  /\ IF netOk
     THEN /\ documents' = [documents EXCEPT ![s] = FetchDocumentsQuery(user[s], user[s])]
          /\ UNCHANGED notes
     ELSE /\ toast' = Toast(s, "Error", "Failed to load documents")
          /\ last' = [NoLast EXCEPT !.session = s, !.op = "fetchDocuments",
                                    !.dbError = Error]
          /\ UNCHANGED documents
  /\ docsLoading' = Finally(docsLoading, s)
  /\ UNCHANGED <<downloadVars, backend, authVars, uploadVars, dels, resumeVars, versionVars>>

\* a deleteDocument that goes on to the row whatever the removal answered
StorageNeverThrows(storageError) == FALSE

\* if (storageError) throw storageError
StorageThrows(storageError) == storageError = Error

\* a row deletion whose error is dropped
DeleteNeverThrows(dbError) == FALSE

\* if (dbError) throw dbError, in deleteDocument
DeleteThrows(dbError) == dbError = Error

\* documents.filter(doc => doc.id !== documentId)
FilterOut(docs, documentId) == SelectSeq(docs, LAMBDA doc : doc.id # documentId)

\* The calls in flight in one session, kept as the set of [op, n]: n calls
\* are at the same point op. Which of them was started first is not kept.
Calls(B) == {e.op : e \in B}
Count(B, op) == IF op \in Calls(B) THEN (CHOOSE e \in B : e.op = op).n ELSE 0
Started(B, op) ==
  {e \in B : e.op # op} \cup {[op |-> op, n |-> Count(B, op) + 1]}
Ended(B, op) ==
  {e \in B : e.op # op} \cup
    (IF Count(B, op) > 1 THEN {[op |-> op, n |-> Count(B, op) - 1]} ELSE {})

RECURSIVE Size(_)
Size(B) ==
  IF B = {} THEN 0
  ELSE LET e == CHOOSE x \in B : TRUE IN e.n + Size(B \ {e})

RECURSIVE SumSize(_)
SumSize(S) ==
  IF S = {} THEN 0
  ELSE LET s == CHOOSE x \in S : TRUE IN Size(dels[s]) + SumSize(S \ {s})

\* deleteDocument calls in flight, all sessions together
DeletesInFlight == SumSize(Sessions)

LastDelete(s, op, storageError, dbError) ==
  [session |-> s, op |-> "deleteDocument", documentId |-> op.documentId, filePath |-> op.filePath,
   storageError |-> storageError, dbError |-> dbError]

\* deleteDocument(documentId, filePath) up to its first await, for whatever
\* arguments it is called with. The call closes over the documents of the
\* render it was made in.
deleteDocumentCall(s, documentId, filePath) ==
  /\ user[s] # NoUser
  /\ activeTab[s] = "documents"
  /\ DeletesInFlight < MaxInFlight
  /\ dels' = [dels EXCEPT ![s] = Started(@,
                [documentId |-> documentId,
                 filePath |-> filePath,
                 closure |-> documents[s], pc |-> "removing",
                 storageError |-> Pending, dbError |-> NotSent])]
  /\ UNCHANGED <<downloadVars, backend, authVars, uploadVars, documents, docsLoading,
                 resumeVars, versionVars, notes>>

\* the delete button of the i-th listed document: deleteDocument(id, file_path).
\* The button is never disabled.
deleteDocument(s, i) ==
  /\ ~docsLoading[s]
  /\ i \in 1..Len(documents[s])
  /\ deleteDocumentCall(s, documents[s][i].id, documents[s][i].file_path)

\* the storage removal of the call at op is answered
deleteDocumentRemoved(s, op, netOk) ==
  /\ op \in Calls(dels[s])
  /\ op.pc = "removing"
  /\ LET storageError == IF netOk THEN NoError ELSE Error
     IN /\ bucket_documents' =
             IF netOk THEN bucket_documents \ StorageRemoved(user[s], op.filePath)
             ELSE bucket_documents
        /\ IF StorageThrows(storageError)
           THEN /\ toast' = Toast(s, "Error", "Failed to delete document")
                /\ dels' = [dels EXCEPT ![s] = Ended(@, op)]
                /\ last' = LastDelete(s, op, storageError, NotSent)
           ELSE /\ dels' = [dels EXCEPT ![s] =
                              Started(Ended(@, op),
                                      [op EXCEPT !.pc = "deleting",
                                                 !.storageError = storageError,
                                                 !.dbError = Pending])]
                /\ UNCHANGED notes
  /\ UNCHANGED <<downloadVars, db_documents, db_resumes, db_resume_versions, seq, rseq, vseq, clock,
                 authVars, uploadVars, documents, docsLoading, resumeVars, versionVars>>

\* the row deletion of the call at op is answered
deleteDocumentDeleted(s, op, netOk) ==
  /\ op \in Calls(dels[s])
  /\ op.pc = "deleting"
  /\ LET dbError == IF netOk THEN NoError ELSE Error
     IN /\ db_documents' =
             IF netOk THEN db_documents \ DocumentsDeleted(user[s], op.documentId)
             ELSE db_documents
        /\ IF DeleteThrows(dbError)
           THEN /\ toast' = Toast(s, "Error", "Failed to delete document")
                /\ UNCHANGED documents
           ELSE /\ documents' = [documents EXCEPT ![s] =
                                   FilterOut(op.closure, op.documentId)]
                /\ toast' = Toast(s, "Success", "Document deleted successfully")
        /\ dels' = [dels EXCEPT ![s] = Ended(@, op)]
        /\ last' = LastDelete(s, op, op.storageError, dbError)
  /\ UNCHANGED <<downloadVars, bucket_documents, db_resumes, db_resume_versions, seq, rseq, vseq,
                 clock, authVars, uploadVars, docsLoading, resumeVars, versionVars>>

\* ------------------------------------------------------------ ResumePreview
\* a lookup that throws on every error, PGRST116 included
AnyErrorThrows(res) == res.error = Error

\* if (error && error.code !== 'PGRST116') throw error
LookupThrows(res) == res.error = Error /\ res.code # "PGRST116"

\* user?.email || ''
PrefilledEmail(u) == IF UserEmail(u) = NoEmail THEN "" ELSE UserEmail(u)

LastCall(s, op, outcome) ==
  [NoLast EXCEPT !.session = s, !.op = op, !.dbError = outcome]

\* fetchResume, run once by the effect of the mounted preview of a signed-in user
fetchResume(s, netOk) ==
  /\ user[s] # NoUser
  /\ activeTab[s] = "preview"
  /\ resumeLoading[s]
  /\ LET res == Single(ActiveResumesQuery(user[s], user[s]), netOk)
     IN IF LookupThrows(res)
        THEN /\ toast' = Toast(s, "Error", "Failed to load resume")
             /\ last' = LastCall(s, "fetchResume", Error)
             /\ UNCHANGED resume
        ELSE /\ resume' = [resume EXCEPT ![s] = res.data]
             /\ last' = LastCall(s, "fetchResume", NoError)
             /\ UNCHANGED toast
  /\ resumeLoading' = Finally(resumeLoading, s)
  /\ UNCHANGED <<downloadVars, backend, authVars, uploadVars, listVars, generating, creating,
                 versionVars>>

RECURSIVE SumCreating(_)
SumCreating(S) ==
  IF S = {} THEN 0
  ELSE LET s == CHOOSE x \in S : TRUE IN creating[s] + SumCreating(S \ {s})

\* the Create Resume button, shown while resume is null and never disabled:
\* createResume up to its await
createResume(s) ==
  /\ user[s] # NoUser
  /\ activeTab[s] = "preview"
  /\ ~resumeLoading[s]
  /\ resume[s] = NoResume
  /\ creating[s] < MaxInFlight
  /\ rseq + SumCreating(Sessions) <= MaxResumes
  /\ creating' = [creating EXCEPT ![s] = @ + 1]
  /\ UNCHANGED <<downloadVars, backend, authVars, uploadVars, listVars, resume, resumeLoading,
                 generating, versionVars, notes>>

\* the insert of one createResume call is answered (insert().select().single())
createResumeInserted(s, netOk) ==
  /\ creating[s] > 0
  /\ LET row == ResumeRow(user[s], PrefilledEmail(user[s]))
         error == ResumesInsertError(user[s], row, netOk)
     IN IF error = Error
        THEN /\ toast' = Toast(s, "Error", "Failed to create resume")
             /\ last' = LastCall(s, "createResume", Error)
             /\ UNCHANGED <<db_resumes, rseq, resume>>
        ELSE /\ db_resumes' = db_resumes \cup {row}
             /\ rseq' = rseq + 1
             /\ resume' = [resume EXCEPT ![s] = row]
             /\ toast' = Toast(s, "Success", "Resume created successfully")
             /\ last' = LastCall(s, "createResume", NoError)
  /\ creating' = [creating EXCEPT ![s] = @ - 1]
  /\ UNCHANGED <<downloadVars, db_documents, bucket_documents, db_resume_versions, seq, vseq, clock,
                 authVars, uploadVars, listVars, resumeLoading, generating, versionVars>>

\* the description of the catch branch
GenerationFailed(format) ==
  IF format = "pdf" THEN "Failed to generate PDF" ELSE "Failed to generate DOCX"

\* `${format.toUpperCase()} generation will be available soon`
ComingSoon(format) ==
  IF format = "pdf" THEN "PDF generation will be available soon"
  ELSE "DOCX generation will be available soon"

\* generateDocument(format): no await; generating is true only inside the call
generateDocument(s, format) ==
  /\ user[s] # NoUser
  /\ activeTab[s] = "preview"
  /\ ~resumeLoading[s]
  /\ resume[s] # NoResume
  /\ ~generating[s]
  /\ toast' = Toast(s, "Coming Soon", ComingSoon(format))
  /\ last' = LastCall(s, "generateDocument", NoError)
  /\ generating' = Finally(generating, s)
  /\ UNCHANGED <<downloadVars, backend, authVars, uploadVars, listVars, resume, resumeLoading,
                 creating, versionVars>>

\* ------------------------------------------------------------ VersionHistory
\* fetchVersions, run once by the effect of the mounted history: the lookup of
\* the active resume is answered
fetchVersions(s, netOk) ==
  /\ user[s] # NoUser
  /\ activeTab[s] = "history"
  /\ versionsLoading[s]
  /\ fv[s].pc = "idle"
  /\ LET res == Single(ActiveResumesQuery(user[s], user[s]), netOk)
     IN IF LookupThrows(res)
        THEN /\ toast' = Toast(s, "Error", "Failed to load version history")
             /\ last' = LastCall(s, "fetchVersions", Error)
             /\ versionsLoading' = Finally(versionsLoading, s)
             /\ UNCHANGED <<versions, fv>>
        ELSE IF res.data = NoResume
        THEN /\ versions' = [versions EXCEPT ![s] = <<>>]
             /\ versionsLoading' = Finally(versionsLoading, s)
             /\ last' = LastCall(s, "fetchVersions", "no resume")
             /\ UNCHANGED <<toast, fv>>
        ELSE /\ fv' = [fv EXCEPT ![s] = [pc |-> "querying", resume_id |-> res.data.id]]
             /\ UNCHANGED <<versions, versionsLoading, notes>>
  /\ UNCHANGED <<downloadVars, backend, authVars, uploadVars, listVars, resumeVars>>

\* the query on resume_versions is answered
fetchVersionsQueried(s, netOk) ==
  /\ fv[s].pc = "querying"
  /\ IF netOk
     THEN /\ versions' = [versions EXCEPT ![s] =
                            FetchVersionsQuery(user[s], fv[s].resume_id)]
          /\ last' = LastCall(s, "fetchVersions", NoError)
          /\ UNCHANGED toast
     ELSE /\ toast' = Toast(s, "Error", "Failed to load version history")
          /\ last' = LastCall(s, "fetchVersions", Error)
          /\ UNCHANGED versions
  /\ versionsLoading' = Finally(versionsLoading, s)
  /\ fv' = [fv EXCEPT ![s] = IdleFv]
  /\ UNCHANGED <<downloadVars, backend, authVars, uploadVars, listVars, resumeVars>>

\* a handler that takes the path of the other format
OtherFormatPath(version, format) ==
  IF format = "pdf" THEN version.docx_path ELSE version.pdf_path

\* format === 'pdf' ? version.pdf_path : version.docx_path
RequestedPath(version, format) ==
  IF format = "pdf" THEN version.pdf_path ELSE version.docx_path

\* `${format.toUpperCase()} version not available for this version`
NotAvailable(format) ==
  IF format = "pdf" THEN "PDF version not available for this version"
  ELSE "DOCX version not available for this version"

\* `resume-v${version.version_number}.${format}`, kept as its parts
DownloadName(version_number, format) == <<"resume-v", version_number, format>>

\* "Users can view their own generated resumes"
GeneratedSelectPolicy(uid, name) == uid = FolderName1(name)

\* storage.from('generated-resumes').download(name): an object that is not
\* stored, or that the policy hides, is an error
StorageDownloadError(auth, name, netOk) ==
  IF netOk /\ GeneratedSelectPolicy(auth, name) /\ name \in bucket_generated
  THEN NoError ELSE Error

\* if (error) throw error, in downloadVersion
DownloadThrows(error) == error = Error

\* downloadVersion(version, format) up to its await, for the i-th listed
\* version. The handler is applied to both formats of every listed version;
\* the page renders a format's button only for a version that has its path.
downloadVersion(s, i, format) ==
  /\ user[s] # NoUser
  /\ activeTab[s] = "history"
  /\ ~versionsLoading[s]
  /\ i \in 1..Len(versions[s])
  /\ Size(dl[s]) < MaxInFlight
  /\ LET version == versions[s][i]
         filePath == RequestedPath(version, format)
     IN IF filePath = NoPath
        THEN /\ toast' = Toast(s, "Not Available", NotAvailable(format))
             /\ last' = LastCall(s, "downloadVersion", "not available")
             /\ UNCHANGED dl
        ELSE /\ dl' = [dl EXCEPT ![s] = Started(@,
                        [filePath |-> filePath,
                         version_number |-> version.version_number,
                         format |-> format])]
             /\ UNCHANGED notes
  /\ UNCHANGED <<backend, bucket_generated, anchor, authVars, uploadVars, listVars,
                 resumeVars, versionVars>>

\* the download of the call at op is answered
downloadVersionDownloaded(s, op, netOk) ==
  /\ op \in Calls(dl[s])
  /\ LET error == StorageDownloadError(user[s], op.filePath, netOk)
     IN IF DownloadThrows(error)
        THEN /\ toast' = Toast(s, "Error", "Failed to download file")
             /\ last' = [LastCall(s, "downloadVersion", Error) EXCEPT
                           !.filePath = op.filePath]
             /\ UNCHANGED anchor
        ELSE /\ anchor' = [anchor EXCEPT ![s] =
                            [href |-> op.filePath,
                             download |-> DownloadName(op.version_number, op.format)]]
             /\ last' = [LastCall(s, "downloadVersion", NoError) EXCEPT
                           !.filePath = op.filePath]
             /\ UNCHANGED toast
  /\ dl' = [dl EXCEPT ![s] = Ended(@, op)]
  /\ UNCHANGED <<backend, bucket_generated, authVars, uploadVars, listVars,
                 resumeVars, versionVars>>

\* ------------------------------------------------------------ version ledger
VersionsOf(rid) == {v \in db_resume_versions : v.resume_id = rid}

RECURSIVE MaxVersionNumber(_)
MaxVersionNumber(S) ==
  IF S = {} THEN 0
  ELSE LET v == CHOOSE x \in S : TRUE
       IN Max(v.version_number, MaxVersionNumber(S \ {v}))

\* The snapshot operation of the ledger, which no component implements: user u
\* stores the content of resume r as the next version, with or without the
\* generated files.
createVersion(u, r, files) ==
  /\ vseq <= MaxVersions
  /\ r \in db_resumes
  /\ LET v == [id |-> vseq, resume_id |-> r.id,
               version_number |-> MaxVersionNumber(VersionsOf(r.id)) + 1,
               content |-> r.content,
               pdf_path |-> IF files THEN <<u, vseq, "pdf">> ELSE NoPath,
               docx_path |-> IF files THEN <<u, vseq, "docx">> ELSE NoPath]
     IN /\ VersionsInsertPolicy(u, v)
        /\ db_resume_versions' = db_resume_versions \cup {v}
        /\ bucket_generated' = bucket_generated \cup
                                ({v.pdf_path, v.docx_path} \ {NoPath})
        /\ vseq' = vseq + 1
  /\ UNCHANGED <<dl, anchor, db_documents, bucket_documents, db_resumes, seq, rseq, clock,
                 authVars, uploadVars, listVars, resumeVars, versionVars, notes>>

\* a store without ON DELETE CASCADE
NoCascade(rids) == {}

\* resume_id UUID NOT NULL REFERENCES public.resumes(id) ON DELETE CASCADE:
\* the versions that go with the resumes of ids rids
Cascade(rids) == {v \in db_resume_versions : v.resume_id \in rids}

\* an update policy like the one of resumes, by way of the parent resume
OwnerUpdates(uid, v) ==
  \E r \in db_resumes : r.id = v.resume_id /\ r.user_id = uid

\* resume_versions has row-level security enabled and the migration creates
\* no UPDATE and no DELETE policy for it: no row is visible to either command
VersionsUpdatePolicy(uid, v) == FALSE
VersionsDeletePolicy(uid, v) == FALSE

\* what an update would write into a version's content
EditedContent(c) == [c EXCEPT !.personal.name = "edited"]

LastRequest(u, op) ==
  [NoLast EXCEPT !.session = u, !.op = op, !.dbError = NoError]

\* from('resumes').insert({ user_id, title, content }) sent with u's session,
\* the request of createResume
insertResume(u) ==
  /\ rseq <= MaxResumes
  /\ LET row == ResumeRow(u, PrefilledEmail(u))
     IN /\ ResumesInsertError(u, row, TRUE) = NoError
        /\ db_resumes' = db_resumes \cup {row}
        /\ rseq' = rseq + 1
  /\ UNCHANGED <<downloadVars, db_documents, bucket_documents, db_resume_versions, seq, vseq,
                 clock, authVars, uploadVars, listVars, resumeVars, versionVars, notes>>

\* from('resume_versions').insert({ resume_id, version_number, content, .. })
\* sent with u's session: the row is stored when the insert policy admits it.
\* The table has no constraint on version_number.
insertVersion(u, r, n, files) ==
  /\ vseq <= MaxLedger
  /\ r \in db_resumes
  /\ LET v == [id |-> vseq, resume_id |-> r.id, version_number |-> n,
               content |-> r.content,
               pdf_path |-> IF files THEN <<u, vseq, "pdf">> ELSE NoPath,
               docx_path |-> IF files THEN <<u, vseq, "docx">> ELSE NoPath]
     IN /\ VersionsInsertPolicy(u, v)
        /\ db_resume_versions' = db_resume_versions \cup {v}
        /\ bucket_generated' = bucket_generated \cup
                                ({v.pdf_path, v.docx_path} \ {NoPath})
        /\ vseq' = vseq + 1
  /\ UNCHANGED <<dl, anchor, db_documents, bucket_documents, db_resumes, seq, rseq, clock,
                 authVars, uploadVars, listVars, resumeVars, versionVars, notes>>

\* from('resume_versions').update({ version_number, content }).eq('id', id)
\* sent with u's session: rows the policy hides are skipped without an error
updateVersion(u, id, n) ==
  /\ \E v \in db_resume_versions : v.id = id
  /\ LET updated == {v \in db_resume_versions : v.id = id /\ VersionsUpdatePolicy(u, v)}
     IN db_resume_versions' =
          (db_resume_versions \ updated) \cup
          {[v EXCEPT !.version_number = n, !.content = EditedContent(@)] : v \in updated}
  /\ last' = LastRequest(u, "updateVersion")
  /\ UNCHANGED <<downloadVars, db_documents, bucket_documents, db_resumes, seq, rseq, vseq,
                 clock, authVars, uploadVars, listVars, resumeVars, versionVars, toast>>

\* from('resume_versions').delete().eq('id', id) sent with u's session
deleteVersion(u, id) ==
  /\ \E v \in db_resume_versions : v.id = id
  /\ db_resume_versions' =
       db_resume_versions \ {v \in db_resume_versions :
                               v.id = id /\ VersionsDeletePolicy(u, v)}
  /\ last' = LastRequest(u, "deleteVersion")
  /\ UNCHANGED <<downloadVars, db_documents, bucket_documents, db_resumes, seq, rseq, vseq,
                 clock, authVars, uploadVars, listVars, resumeVars, versionVars, toast>>

\* from('resumes').delete().eq('id', id) sent with u's session: the rows the
\* delete policy admits go, and their versions with them
deleteResume(u, id) ==
  /\ \E r \in db_resumes : r.id = id
  /\ LET deleted == {r \in db_resumes : r.id = id /\ ResumesDeletePolicy(u, r)}
     IN /\ db_resumes' = db_resumes \ deleted
        /\ db_resume_versions' = db_resume_versions \ Cascade({r.id : r \in deleted})
  /\ last' = LastRequest(u, "deleteResume")
  /\ UNCHANGED <<downloadVars, db_documents, bucket_documents, seq, rseq, vseq, clock,
                 authVars, uploadVars, listVars, resumeVars, versionVars, toast>>

\* ------------------------------------------------------------ specifications
AuthNext ==
  \E s \in Sessions :
    \/ \E type \in {"signin", "signup"}, email \in Users : handleSubmit(s, type, email)
    \/ \E ok \in BOOLEAN : handleSubmitResolve(s, ok)
    \/ signOut(s)

\* The upload form, in both tabs.
NextUpload ==
  \/ \E s \in Sessions, t \in Titles \cup {""} : setTitle(s, t)
  \/ \E s \in Sessions, y \in DocumentTypes \cup {""} : setDocumentType(s, y)
  \/ \E s \in Sessions, file \in Exts \cup {NoFile} : onDrop(s, file)
  \/ \E s \in Sessions, netOk \in BOOLEAN : onDropStored(s, netOk)
  \/ \E s \in Sessions, netOk \in BOOLEAN : onDropInserted(s, netOk)

SpecUpload == Init /\ [][NextUpload]_vars

\* The document operations of one tab: it fills the form, uploads, lists and
\* deletes.
NextDocs ==
  \/ \E tab \in {"upload", "documents"} : setActiveTab("s1", tab)
  \/ \E t \in Titles : setTitle("s1", t)
  \/ \E y \in DocumentTypes : setDocumentType("s1", y)
  \/ \E file \in Exts : onDrop("s1", file)
  \/ \E netOk \in BOOLEAN : onDropStored("s1", netOk)
  \/ \E netOk \in BOOLEAN : onDropInserted("s1", netOk)
  \/ \E netOk \in BOOLEAN : fetchDocuments("s1", netOk)
  \/ \E i \in 1..MaxDocs : deleteDocument("s1", i)
  \/ \E op \in Calls(dels["s1"]), netOk \in BOOLEAN :
       deleteDocumentRemoved("s1", op, netOk)
  \/ \E op \in Calls(dels["s1"]), netOk \in BOOLEAN :
       deleteDocumentDeleted("s1", op, netOk)

\* Two tabs upload, each lists its documents.
NextList ==
  \/ \E s \in Sessions, tab \in {"upload", "documents"} : setActiveTab(s, tab)
  \/ \E s \in Sessions, t \in Titles : setTitle(s, t)
  \/ \E s \in Sessions, y \in DocumentTypes : setDocumentType(s, y)
  \/ \E s \in Sessions, file \in Exts : onDrop(s, file)
  \/ \E s \in Sessions, netOk \in BOOLEAN : onDropStored(s, netOk)
  \/ \E s \in Sessions, netOk \in BOOLEAN : onDropInserted(s, netOk)
  \/ \E s \in Sessions, netOk \in BOOLEAN : fetchDocuments(s, netOk)

SpecList == Init /\ [][NextList]_vars

SpecDocs == Init /\ [][NextDocs]_vars

\* Tab s1 uploads; tab s2, of the same user, of another user or of the user
\* without a session, calls deleteDocument with any id and any path of the
\* store, one call after the other.
NextScope ==
  \/ \E t \in Titles : setTitle("s1", t)
  \/ \E y \in DocumentTypes : setDocumentType("s1", y)
  \/ \E file \in Exts : onDrop("s1", file)
  \/ \E netOk \in BOOLEAN : onDropStored("s1", netOk)
  \/ \E netOk \in BOOLEAN : onDropInserted("s1", netOk)
  \/ \E tab \in {"upload", "documents"} : setActiveTab("s2", tab)
  \/ \E netOk \in BOOLEAN : fetchDocuments("s2", netOk)
  \/ \E d \in db_documents, n \in bucket_documents :
       dels["s2"] = {} /\ deleteDocumentCall("s2", d.id, n)
  \/ \E op \in Calls(dels["s2"]), netOk \in BOOLEAN :
       deleteDocumentRemoved("s2", op, netOk)
  \/ \E op \in Calls(dels["s2"]), netOk \in BOOLEAN :
       deleteDocumentDeleted("s2", op, netOk)

SpecScope == Init /\ [][NextScope]_vars

\* Both tabs upload; the first also lists its documents and deletes them.
NextPaths ==
  \/ \E s \in Sessions, t \in Titles : setTitle(s, t)
  \/ \E s \in Sessions, y \in DocumentTypes : setDocumentType(s, y)
  \/ \E s \in Sessions, file \in Exts : onDrop(s, file)
  \/ \E s \in Sessions, netOk \in BOOLEAN : onDropStored(s, netOk)
  \/ \E s \in Sessions, netOk \in BOOLEAN : onDropInserted(s, netOk)
  \/ \E tab \in {"upload", "documents"} : setActiveTab("s1", tab)
  \/ \E netOk \in BOOLEAN : fetchDocuments("s1", netOk)
  \/ \E i \in 1..MaxDocs : dels["s1"] = {} /\ deleteDocument("s1", i)
  \/ \E op \in Calls(dels["s1"]), netOk \in BOOLEAN :
       deleteDocumentRemoved("s1", op, netOk)
  \/ \E op \in Calls(dels["s1"]), netOk \in BOOLEAN :
       deleteDocumentDeleted("s1", op, netOk)

SpecPaths == Init /\ [][NextPaths]_vars

\* The resume operations, in both tabs.
NextResume ==
  \/ \E s \in Sessions, tab \in {"preview", "history"} : setActiveTab(s, tab)
  \/ \E s \in Sessions, netOk \in BOOLEAN : fetchResume(s, netOk)
  \/ \E s \in Sessions : createResume(s)
  \/ \E s \in Sessions, netOk \in BOOLEAN : createResumeInserted(s, netOk)
  \/ \E s \in Sessions, format \in {"pdf", "docx"} : generateDocument(s, format)
  \/ \E s \in Sessions, netOk \in BOOLEAN : fetchVersions(s, netOk)
  \/ \E s \in Sessions, netOk \in BOOLEAN : fetchVersionsQueried(s, netOk)
  \/ \E u \in Users, r \in db_resumes, files \in BOOLEAN :
       createVersion(u, r, files)

SpecResume == Init /\ [][NextResume]_vars

\* One tab creates its resume, opens the history and downloads; versions
\* are stored meanwhile.
NextHistory ==
  \/ \E tab \in {"preview", "history"} : setActiveTab("s1", tab)
  \/ \E netOk \in BOOLEAN : fetchResume("s1", netOk)
  \/ createResume("s1")
  \/ \E netOk \in BOOLEAN : createResumeInserted("s1", netOk)
  \/ \E r \in db_resumes, files \in BOOLEAN : createVersion(user["s1"], r, files)
  \/ \E netOk \in BOOLEAN : fetchVersions("s1", netOk)
  \/ \E netOk \in BOOLEAN : fetchVersionsQueried("s1", netOk)
  \/ \E i \in 1..MaxVersions, format \in {"pdf", "docx"} :
       downloadVersion("s1", i, format)
  \/ \E op \in Calls(dl["s1"]), netOk \in BOOLEAN :
       downloadVersionDownloaded("s1", op, netOk)

SpecHistory == Init /\ [][NextHistory]_vars

\* The ledger: the user of tab s1 stores resumes; every request on
\* resume_versions that a signed-in user can send to the store, and the
\* deletion of a resume, is sent by the owner and by another user, while the
\* tab opens the history and reads it.
NextLedger ==
  \/ setActiveTab("s1", "history")
  \/ \E netOk \in BOOLEAN : fetchVersions("s1", netOk)
  \/ \E netOk \in BOOLEAN : fetchVersionsQueried("s1", netOk)
  \/ insertResume(user["s1"])
  \/ \E u \in Users, r \in db_resumes, n \in 1..MaxLedger :
       insertVersion(u, r, n, FALSE)
  \/ \E u \in Users, v \in db_resume_versions, n \in 1..MaxLedger :
       updateVersion(u, v.id, n)
  \/ \E u \in Users, v \in db_resume_versions : deleteVersion(u, v.id)
  \/ \E u \in Users, r \in db_resumes : deleteResume(u, r.id)

SpecLedger == InitOneTab /\ [][NextLedger]_vars

\* the busy flag of the component that s shows: the form's loading when
\* signed out, else uploading or the loading flag of the mounted tab
Busy(s) ==
  IF user[s] = NoUser THEN authLoading[s]
  ELSE CASE activeTab[s] = "upload" -> uploading[s]
         [] activeTab[s] = "documents" -> docsLoading[s]
         [] activeTab[s] = "preview" -> resumeLoading[s]
         [] activeTab[s] = "history" -> versionsLoading[s]

\* Every handler that sets a busy flag, in one tab, whose user signs out and
\* in again. A request the client sent is answered, by the backend or by the
\* client's own failure, and a mounted component runs its effect. The user
\* leaves a tab once its component is idle: leaving earlier unmounts the
\* component and its flag with it.
NextLive ==
  \/ \E tab \in {"upload", "documents", "preview", "history"} :
       ~Busy("s1") /\ setActiveTab("s1", tab)
  \/ \E t \in Titles : setTitle("s1", t)
  \/ \E y \in DocumentTypes : setDocumentType("s1", y)
  \/ \E file \in Exts : onDrop("s1", file)
  \/ \E netOk \in BOOLEAN : onDropStored("s1", netOk)
  \/ \E netOk \in BOOLEAN : onDropInserted("s1", netOk)
  \/ \E netOk \in BOOLEAN : fetchDocuments("s1", netOk)
  \/ \E netOk \in BOOLEAN : fetchResume("s1", netOk)
  \/ createResume("s1")
  \/ \E netOk \in BOOLEAN : createResumeInserted("s1", netOk)
  \/ \E format \in {"pdf", "docx"} : generateDocument("s1", format)
  \/ \E netOk \in BOOLEAN : fetchVersions("s1", netOk)
  \/ \E netOk \in BOOLEAN : fetchVersionsQueried("s1", netOk)
  \/ signOut("s1")
  \/ \E type \in {"signin", "signup"} : handleSubmit("s1", type, "u1")
  \/ \E ok \in BOOLEAN : handleSubmitResolve("s1", ok)

Answered ==
  /\ WF_vars(\E netOk \in BOOLEAN : onDropStored("s1", netOk))
  /\ WF_vars(\E netOk \in BOOLEAN : onDropInserted("s1", netOk))
  /\ WF_vars(\E netOk \in BOOLEAN : fetchDocuments("s1", netOk))
  /\ WF_vars(\E netOk \in BOOLEAN : fetchResume("s1", netOk))
  /\ WF_vars(\E netOk \in BOOLEAN : createResumeInserted("s1", netOk))
  /\ WF_vars(\E netOk \in BOOLEAN : fetchVersions("s1", netOk))
  /\ WF_vars(\E netOk \in BOOLEAN : fetchVersionsQueried("s1", netOk))
  /\ WF_vars(\E ok \in BOOLEAN : handleSubmitResolve("s1", ok))

SpecLive == InitOneTab /\ [][NextLive]_vars /\ Answered

\* The sign-in form and the Sign Out button.
SpecAuth == Init /\ [][AuthNext]_vars

\* ------------------------------------------------------------ properties
DroppedFiles == Exts \cup {NoFile}
MissingInformationToast(s) ==
  Toast(s, "Missing Information", "Please fill in the document title and type")
OwnResumes(u) == {r \in db_resumes : r.user_id = u}
ActiveResumes(u) == {r \in db_resumes : r.user_id = u /\ r.is_active}

\* C1: deleteDocument deletes the record only after the blob removal succeeded.
\* A call is at the row deletion only with a removal that returned no error; a
\* failed removal ends the call there, with the records as they were and the
\* row deletion never sent; a removal that succeeds leaves no blob under the
\* path, and a row deletion that succeeds leaves no record with the id.
DeleteFailFast ==
  /\ [](\A s \in Sessions : \A op \in Calls(dels[s]) :
          op.pc = "deleting" => op.storageError = NoError)
  /\ [][\A s \in Sessions : \A op \in Calls(dels[s]) :
          /\ deleteDocumentRemoved(s, op, FALSE) =>
               /\ db_documents' = db_documents
               /\ bucket_documents' = bucket_documents
               /\ dels'[s] = Ended(dels[s], op)
               /\ last'.dbError = NotSent
               /\ toast' = Toast(s, "Error", "Failed to delete document")
          /\ deleteDocumentRemoved(s, op, TRUE) =>
               op.filePath \notin bucket_documents'
          /\ deleteDocumentDeleted(s, op, TRUE) =>
               /\ op.storageError = NoError
               /\ ~\E d \in db_documents' : d.id = op.documentId
       ]_vars

\* a deleteDocument ended at its failed blob removal and the record is still stored
DeleteFailedRecordKept ==
  /\ last.op = "deleteDocument"
  /\ last.storageError = Error
  /\ last.dbError = NotSent
  /\ \E d \in db_documents : d.id = last.documentId /\ d.file_path = last.filePath
  /\ last.filePath \in bucket_documents

\* C2: at most one resume of a user is active, whatever fetchResume and
\* createResume calls the user's tabs have made.
AtMostOneActive ==
  \A u \in Users : Cardinality(ActiveResumes(u)) <= 1

\* C3: the list of DocumentList holds only documents of the signed-in user,
\* newest first.
ListOwnNewestFirst ==
  \A s \in Sessions :
    /\ \A i \in 1..Len(documents[s]) : documents[s][i].user_id = user[s]
    /\ \A i, j \in 1..Len(documents[s]) :
         i < j => documents[s][i].created_at >= documents[s][j].created_at

\* a user's list is shown while the store holds a document of another user
ListShownBesideForeign ==
  \E s \in Sessions :
    /\ Len(documents[s]) >= 1
    /\ \E d \in db_documents : d.user_id # user[s]

\* C4: a session has at most one user-triggered operation in flight.
InFlight(s) ==
  UploadInFlight(s) + Size(dels[s]) + creating[s] + AuthInFlight(s)
OneInFlight ==
  \A s \in Sessions : InFlight(s) <= 1

\* C6: onDrop without a user, a title or a type raises the Missing Information
\* notification and leaves the bucket, the rows, uploading and progress alone.
ValidationBeforeIO ==
  [][\A s \in Sessions, file \in DroppedFiles :
       onDrop(s, file) /\ (user[s] = NoUser \/ title[s] = "" \/ documentType[s] = "") =>
         /\ toast' = MissingInformationToast(s)
         /\ UNCHANGED <<bucket_documents, db_documents, seq, uploading, progress, up>>
    ]_vars

\* a signed-in user dropped a file with the type chosen and the title empty
DroppedWithoutTitle ==
  \E s \in Sessions :
    /\ last = LastUpload(s, NoPath, NotSent, NotSent)
    /\ toast = MissingInformationToast(s)
    /\ user[s] # NoUser
    /\ title[s] = ""
    /\ documentType[s] # ""
    /\ ~uploading[s]

\* C7: an upload that succeeds inserts exactly one row, with the user, title
\* and type of the call, status 'pending' and the name the blob was stored
\* under, whose first folder is the user's id; a listing by that user right
\* after has the row at its head.
UploadInsertsPendingHead ==
  [][\A s \in Sessions :
       onDropInserted(s, TRUE) =>
         \E d \in db_documents' :
           /\ d \notin db_documents
           /\ db_documents' = db_documents \cup {d}
           /\ d.user_id = user[s]
           /\ d.title = up[s].title
           /\ d.type = up[s].type
           /\ d.status = "pending"
           /\ up[s].uploadError = NoError
           /\ d.file_path = up[s].fileName
           /\ FolderName1(d.file_path) = user[s]
           /\ Head(FetchDocumentsQuery(user[s], user[s]))' = d
    ]_vars

\* an upload succeeded and its row heads the user's listing of two documents
UploadedHeadsListOfTwo ==
  \E s \in Sessions :
    /\ last.session = s /\ last.op = "onDrop" /\ last.dbError = NoError
    /\ Len(FetchDocumentsQuery(user[s], user[s])) = 2
    /\ Head(FetchDocumentsQuery(user[s], user[s])).file_path = last.filePath
    /\ toast.title = "Success"

\* C8: onDrop sends the insert only after the upload returned no error. A
\* failed upload ends the call with no row inserted; a failed insert ends the
\* call with the Upload Failed notification, no row inserted and the bucket as
\* it was: the blob is not removed again.
UploadBlobThenRow ==
  /\ [](\A s \in Sessions : up[s].pc = "inserting" => up[s].uploadError = NoError)
  /\ [][\A s \in Sessions :
          /\ onDropStored(s, FALSE) =>
               /\ up'[s] = IdleUp
               /\ UNCHANGED <<db_documents, seq, bucket_documents>>
          /\ onDropStored(s, TRUE) /\ up'[s].pc = "idle" =>
               UNCHANGED <<db_documents, seq, bucket_documents>>
          /\ onDropInserted(s, FALSE) =>
               /\ UNCHANGED <<db_documents, seq, bucket_documents>>
               /\ toast'.title = "Upload Failed"
               /\ ~uploading'[s]
       ]_vars

\* an upload ended at its failed insert: the blob is stored and no row names it
OrphanBlob ==
  /\ last.op = "onDrop"
  /\ last.storageError = NoError
  /\ last.dbError = Error
  /\ last.filePath \in bucket_documents
  /\ ~\E d \in db_documents : d.file_path = last.filePath
  /\ toast.title = "Upload Failed"

\* C5: a createResume that succeeds for a user without any resume leaves the
\* user with exactly one resume, active, with the five sections empty and the
\* personal email pre-filled with the user's email, or empty without one.
CreateResumeSkeleton ==
  [][\A s \in Sessions :
       createResumeInserted(s, TRUE) /\ OwnResumes(user[s]) = {} =>
         \E r \in db_resumes' :
           /\ OwnResumes(user[s])' = {r}
           /\ ActiveResumes(user[s])' = {r}
           /\ resume'[s] = r
           /\ r.content.sections = [experience |-> <<>>, education |-> <<>>,
                                    skills |-> <<>>, projects |-> <<>>,
                                    certificates |-> <<>>]
           /\ r.content.personal.email =
                (IF UserEmail(user[s]) = NoEmail THEN "" ELSE UserEmail(user[s]))
    ]_vars

\* a user with an email created the only resume they have
CreatedFirstResume ==
  \E s \in Sessions :
    /\ last = LastCall(s, "createResume", NoError)
    /\ UserEmail(user[s]) # NoEmail
    /\ Cardinality(OwnResumes(user[s])) = 1
    /\ resume[s] \in ActiveResumes(user[s])
    /\ resume[s].content.personal.email = UserEmail(user[s])

\* C9: a fetchVersions whose lookup the store answers for a user without an
\* active resume sets versions to the empty sequence and loading to false,
\* sends no query on resume_versions and raises no notification.
NoResumeNoVersions ==
  [][\A s \in Sessions :
       fetchVersions(s, TRUE) /\ ActiveResumes(user[s]) = {} =>
         /\ versions'[s] = <<>>
         /\ ~versionsLoading'[s]
         /\ fv'[s].pc # "querying"
         /\ toast' = toast
         /\ UNCHANGED backend
    ]_vars

\* the history of a user without an active resume came back empty
EmptyHistoryShown ==
  \E s \in Sessions :
    /\ last = LastCall(s, "fetchVersions", "no resume")
    /\ ActiveResumes(user[s]) = {}
    /\ activeTab[s] = "history"
    /\ versions[s] = <<>>
    /\ ~versionsLoading[s]
    /\ fv[s].pc = "idle"
    /\ toast.title # "Error"

\* C10: an answered lookup of the active resume, in fetchResume and at the
\* start of fetchVersions, finds the user's active resume whenever there is
\* one, and finds none only when the user has no active resume.
ActiveResumeFound ==
  [][\A s \in Sessions :
       /\ fetchResume(s, TRUE) =>
            /\ resume'[s] = NoResume <=> ActiveResumes(user[s]) = {}
            /\ resume'[s] # NoResume => resume'[s] \in ActiveResumes(user[s])
       /\ fetchVersions(s, TRUE) =>
            /\ fv'[s].pc = "querying" <=> ActiveResumes(user[s]) # {}
    ]_vars

\* C11: downloadVersion for a format whose path the version lacks raises Not
\* Available and sends nothing; otherwise it sends one download of the path
\* stored for that format, and an answered download hands the browser that
\* object under the name resume-v<version_number>.<format>.
DownloadRequestedFormat ==
  [][\A s \in Sessions :
       /\ \A i \in 1..Len(versions[s]) : \A format \in {"pdf", "docx"} :
            downloadVersion(s, i, format) =>
              LET v == versions[s][i]
                  path == IF format = "pdf" THEN v.pdf_path ELSE v.docx_path
                  call == [filePath |-> path, version_number |-> v.version_number,
                           format |-> format]
              IN IF path = NoPath
                 THEN /\ toast'.title = "Not Available"
                      /\ toast'.session = s
                      /\ UNCHANGED <<dl, anchor, backend, bucket_generated>>
                 ELSE /\ Count(dl'[s], call) = Count(dl[s], call) + 1
                      /\ Size(dl'[s]) = Size(dl[s]) + 1
                      /\ UNCHANGED <<toast, anchor, backend, bucket_generated>>
       /\ \A op \in Calls(dl[s]) :
            downloadVersionDownloaded(s, op, TRUE) =>
              /\ op.filePath \in bucket_generated
              /\ anchor'[s] = [href |-> op.filePath,
                               download |-> <<"resume-v", op.version_number, op.format>>]
              /\ UNCHANGED <<toast, backend, bucket_generated>>
    ]_vars

\* a listed version without files was asked for a format: Not Available
NotAvailableShown ==
  \E s \in Sessions :
    /\ last = LastCall(s, "downloadVersion", "not available")
    /\ toast.title = "Not Available"
    /\ Len(versions[s]) >= 1
    /\ versions[s][1].pdf_path = NoPath
    /\ dl[s] = {}
    /\ anchor[s] = NoAnchor

\* the tab whose handlers run in SpecLive
Acting == {"s1"}

\* C12: no failure leaves a busy flag stuck. uploading and the sign-in
\* form's loading are true only while their handler has a request out;
\* generating is false whenever a handler has returned; and whenever the
\* busy flag of the shown component is true, it is false again later, on
\* the failure answers as on the successful ones.
BusyFlagsReturn ==
  /\ [](\A s \in Sessions :
          /\ uploading[s] <=> UploadInFlight(s) = 1
          /\ authLoading[s] <=> AuthInFlight(s) = 1
          /\ ~generating[s])
  /\ \A s \in Acting : Busy(s) ~> ~Busy(s)

\* an upload failed at its insert and the dropzone is enabled again
FailedUploadReturned ==
  \E s \in Sessions :
    /\ last.session = s /\ last.op = "onDrop" /\ last.dbError = Error
    /\ toast.title = "Upload Failed"
    /\ ~uploading[s]
    /\ up[s] = IdleUp
    /\ activeTab[s] = "upload"

\* C13: whatever id and path deleteDocument is called with, a step of it
\* takes from the documents table only rows of the calling tab's user and
\* from the bucket only objects in that user's folder.
DeleteOwnOnly ==
  [][\A s \in Sessions :
       dels'[s] # dels[s] =>
         /\ \A d \in db_documents \ db_documents' : d.user_id = user[s]
         /\ \A n \in bucket_documents \ bucket_documents' : FolderName1(n) = user[s]]_vars

\* a call with another user's id and path returned without an error, and
\* the other user's row and object are still stored
ForeignDeleteSkipped ==
  \E s \in Sessions :
    /\ last.session = s /\ last.op = "deleteDocument"
    /\ last.storageError = NoError /\ last.dbError = NoError
    /\ toast = Toast(s, "Success", "Document deleted successfully")
    /\ \E d \in db_documents :
         /\ d.id = last.documentId
         /\ d.file_path = last.filePath
         /\ d.user_id # user[s]
         /\ d.file_path \in bucket_documents

\* C14: for each resume no two versions carry the same version_number, and
\* a version that is stored carries a number greater than every version its
\* resume had
VersionNumbersUniqueIncreasing ==
  /\ [](\A v \in db_resume_versions, w \in db_resume_versions :
          (v.resume_id = w.resume_id /\ v.version_number = w.version_number) => v = w)
  /\ [][\A v \in db_resume_versions' \ db_resume_versions :
          v.version_number > MaxVersionNumber(VersionsOf(v.resume_id))]_vars

\* C15: a stored version stays as it is. In every step each version row is
\* kept with its id, resume_id, version_number and content, whatever request a
\* user sends, unless its parent resume is deleted in that step.
VersionsImmutable ==
  [][\A v \in db_resume_versions :
       \/ /\ v \in db_resume_versions'
          /\ \A w \in db_resume_versions' : w.id = v.id => w = v
       \/ \E r \in db_resumes \ db_resumes' : r.id = v.resume_id]_vars

\* the owner of a resume sent an update of one of its versions, the store
\* answered without an error, and the version holds what it was stored with
OwnerUpdateSkipped ==
  /\ last.op = "updateVersion"
  /\ last.dbError = NoError
  /\ \E v \in db_resume_versions, r \in db_resumes :
       /\ r.id = v.resume_id
       /\ r.user_id = last.session
       /\ v.content = r.content
       /\ v.content # EditedContent(v.content)

\* C17: every version references a stored resume, deleting a resume takes
\* its versions with it, and resumes and versions go only in the answer to a
\* delete on resumes that a user sent to the store, never in a step of a
\* component.
VersionsFollowResume ==
  /\ [](\A v \in db_resume_versions : \E r \in db_resumes : r.id = v.resume_id)
  /\ [][/\ \A r \in db_resumes \ db_resumes' :
            /\ last' = LastRequest(r.user_id, "deleteResume")
            /\ \A v \in db_resume_versions' : v.resume_id # r.id
        /\ \A v \in db_resume_versions \ db_resume_versions' :
            \E r \in db_resumes \ db_resumes' : r.id = v.resume_id]_vars

\* a resume that had a version was deleted by its owner: the version is gone
CascadedVersion ==
  /\ last.op = "deleteResume"
  /\ vseq > 1
  /\ db_resume_versions = {}
  /\ rseq > 1
  /\ db_resumes = {}

\* C16: every document row is one user's, and no two rows of a user share a
\* file_path
DocumentPathsDistinct ==
  /\ \A d \in db_documents : d.user_id \in Users
  /\ \A d \in db_documents, e \in db_documents :
       (d.user_id = e.user_id /\ d.file_path = e.file_path) => d = e

\* C18: a step of generateDocument only raises the Coming Soon notification
\* of one of the two formats in its tab: the tables and both buckets are as
\* before, no request is in flight that was not, and generating is false.
GenerateDoesNothing ==
  [][\A s \in Sessions :
       (last'.op = "generateDocument" /\ last'.session = s
          /\ (last' # last \/ toast' # toast)) =>
         /\ toast'.session = s
         /\ toast'.title = "Coming Soon"
         /\ toast'.description \in {"PDF generation will be available soon",
                                    "DOCX generation will be available soon"}
         /\ UNCHANGED <<backend, bucket_generated>>
         /\ UNCHANGED <<up, dels, creating, fv, dl>>
         /\ UNCHANGED <<resume, versions, documents>>
         /\ ~generating'[s]]_vars

\* the DOCX button was pressed on a shown resume
ComingSoonShown ==
  \E s \in Sessions :
    /\ last = LastCall(s, "generateDocument", NoError)
    /\ toast = Toast(s, "Coming Soon", "DOCX generation will be available soon")
    /\ resume[s] # NoResume
    /\ ~generating[s]

\* C19: once the deleteDocument calls of a tab have returned, every document
\* in its list has its record in the store
ListedDocumentsStored ==
  \A s \in Sessions :
    dels[s] = {} =>
      \A i \in 1..Len(documents[s]) :
        \E d \in db_documents : d.id = documents[s][i].id

\* the document of a deleteDocument call is in the list of its tab
Listed(s, documentId) ==
  \E i \in 1..Len(documents[s]) : documents[s][i].id = documentId

Stored(documentId) == \E d \in db_documents : d.id = documentId

\* C20: a deleteDocument call that fails, at the removal or at the row
\* deletion, raises the error notification and leaves the list as it was: a
\* document that is listed is still listed. When the removal succeeded and
\* the row deletion fails, the record that is stored remains stored and
\* listed, and the bucket is left as the removal left it: the blob is not
\* put back.
DeleteFailureKeepsList ==
  [][\A s \in Sessions : \A op \in Calls(dels[s]) :
       /\ deleteDocumentRemoved(s, op, FALSE) =>
            /\ documents' = documents
            /\ Listed(s, op.documentId) => Listed(s, op.documentId)'
            /\ UNCHANGED <<db_documents, bucket_documents>>
            /\ toast' = Toast(s, "Error", "Failed to delete document")
       /\ deleteDocumentDeleted(s, op, FALSE) =>
            /\ op.storageError = NoError
            /\ documents' = documents
            /\ Listed(s, op.documentId) => Listed(s, op.documentId)'
            /\ Stored(op.documentId) => Stored(op.documentId)'
            /\ UNCHANGED <<db_documents, bucket_documents>>
            /\ toast' = Toast(s, "Error", "Failed to delete document")
    ]_vars

\* a call removed the blob and failed at the row deletion: the record is
\* stored and listed, and its blob is gone
RowKeptBlobGone ==
  \E s \in Sessions :
    /\ last.session = s /\ last.op = "deleteDocument"
    /\ last.storageError = NoError /\ last.dbError = Error
    /\ dels[s] = {}
    /\ Stored(last.documentId)
    /\ Listed(s, last.documentId)
    /\ last.filePath \notin bucket_documents
    /\ toast = Toast(s, "Error", "Failed to delete document")

====
